---------------------------- MODULE Spec2Model ----------------------------
(***************************************************************************)
(* Model of the fireplexity search route (the POST handler of              *)
(* src/unnamed/part_000): query extraction and configuration checks,       *)
(* fan-out search over three SearxNG categories, normalization of the raw  *)
(* results, bounded Firecrawl enrichment, context building, answer         *)
(* streaming merged into the request's UI message stream, follow-up        *)
(* generation, and the catch block that reports failures.                  *)
(*                                                                         *)
(* One action is the handler up to its return, one synchronous segment of  *)
(* the `execute` callback (the code between two awaits), or one step of a  *)
(* collaborator (a search call returning, a scrape settling, the           *)
(* generation stream yielding a token, the merged sub-stream forwarding a  *)
(* chunk).                                                                 *)
(*                                                                         *)
(* JavaScript values are modelled as strings, with three distinguished     *)
(* ones for undefined, null and a function value; `a || b` is Or2.         *)
(* Presentation-only fields of a source (favicon, image, siteName) are not *)
(* carried: no stage of the pipeline reads them.                           *)
(***************************************************************************)
EXTENDS Naturals, Sequences, FiniteSets

VARIABLES
    pc,            \* position of the handler, then of the execute callback
    body,          \* the request's JSON body: query and messages (line 12-16)
    configured,    \* the required environment variables that are set (line 34-43)
    returned,      \* the response POST returned (line 30, 49, 53, 57, 613)
    query,         \* the request's query text (line 16-27)
    promises,      \* the three search promises handed to Promise.all (line 186),
                   \* each with its value until `await Promise.all` has read it
    callFailed,    \* categories whose search call got no usable answer (history)
    sources,       \* let sources (line 90)
    newsResults,   \* let newsResults (line 102)
    imageResults,  \* let imageResults (line 110)
    normalized,    \* sources as they were right after normalization (history)
    scrapeLimit,   \* const scrapeLimit (line 333), once enrichment has started
    scraped,       \* the promises handed to Promise.allSettled (line 336)
    context,       \* let context (line 119), as its sequence of blocks
    aiMessages,    \* let aiMessages (line 439), as given to streamText
    gen,           \* the streamText result: state, tokens produced, tokens forwarded
    followUp,      \* the follow-up generateText call: "none" | "pending" | "ok" | "failed"
    followUpInput, \* the user message given to the follow-up call (line 536-539)
    followUpText,  \* followUpResponse.text (line 546) as its lines, once returned
    caught,        \* the error the catch block of execute received, or NoError
    events,        \* what writer.write / the merged sub-stream put on the stream
    closed         \* the UI message stream has closed

vars == <<pc, body, configured, returned, query, promises, callFailed, sources,
          newsResults, imageResults, normalized, scrapeLimit, scraped, context,
          aiMessages, gen, followUp, followUpInput, followUpText, caught, events,
          closed>>

-----------------------------------------------------------------------------
(* Bounds of the model *)

\* most raw items in the general search's results array
MaxWeb == 2
\* most tokens the generation stream yields
MaxTokens == 2
\* characters of each token of the answer
TokenChars == 300

-----------------------------------------------------------------------------
(* JavaScript values *)

Undefined == "<undefined>"
Null == "<null>"
\* "abc".link is String.prototype.link: a function, hence truthy
FnLink == "<function link>"

Falsy == {Undefined, Null, ""}
Truthy(v) == v \notin Falsy

\* a || b
Or2(a, b) == IF Truthy(a) THEN a ELSE b

Min(a, b) == IF a < b THEN a ELSE b
Max(a, b) == IF a > b THEN a ELSE b

\* A raw result item as JSON delivers it.
NullItem == [t |-> "null"]
NumItem == [t |-> "num"]
StrItem == [t |-> "str"]
Obj(f) == [t |-> "obj", f |-> f]

\* item.name on an item that is not null (on null the access throws, see MapThrows)
Prop(item, name) ==
    CASE item.t = "obj" -> IF name \in DOMAIN item.f THEN item.f[name] ELSE Undefined
      [] item.t = "str" -> IF name = "link" THEN FnLink ELSE Undefined
      [] OTHER -> Undefined

\* A JSON value found under a key of a payload: an array, or something else.
JArr(s) == [t |-> "arr", v |-> s]
JUndef == [t |-> "undef"]
JStr == [t |-> "str"]
NullData == [t |-> "null"]

IsArray(j) == j.t = "arr"

\* data?.name
Key(data, name) ==
    IF data.t = "obj" /\ name \in DOMAIN data.f THEN data.f[name] ELSE JUndef


-----------------------------------------------------------------------------
(* Errors and the event stream *)

\* No statusCode / status property on the error (or a falsy one): line 570-574.
NoStatus == 0

NoError == [isError |-> FALSE, message |-> "", status |-> NoStatus, origin |-> "none"]

\* `origin` names the call or the .map() that threw; the code does not carry it.
Err(message, status, origin) ==
    [isError |-> TRUE, message |-> message, status |-> status, origin |-> origin]

\* const errorResponses (line 577-594)
errorResponses ==
    [c \in {401, 402, 429, 504} |->
        CASE c = 401 -> [error |-> "Invalid API key",
                         suggestion |-> "Please check your Firecrawl API key is correct."]
          [] c = 402 -> [error |-> "Insufficient credits",
                         suggestion |-> "You've run out of Firecrawl credits. Please upgrade your plan."]
          [] c = 429 -> [error |-> "Rate limit exceeded",
                         suggestion |-> "Too many requests. Please wait a moment and try again."]
          [] c = 504 -> [error |-> "Request timeout",
                         suggestion |-> "The search took too long. Try a simpler query or fewer sources."]]

\* The error data without the table: always the raw message, no suggestion.
ErrorDataRaw(error) ==
    [error |-> IF error.isError THEN error.message ELSE "Unknown error",
     suggestion |-> Undefined,
     statusCode |-> error.status]

\* The data of the data-error part the catch block writes (line 569-608).
\* An absent suggestion is Undefined, an absent statusCode is NoStatus.
ErrorData(error) ==
    LET errorMessage == IF error.isError THEN error.message ELSE "Unknown error"
        statusCode == error.status
        errorResponse ==
            IF statusCode # NoStatus /\ statusCode \in DOMAIN errorResponses
            THEN errorResponses[statusCode]
            ELSE [error |-> errorMessage, suggestion |-> Undefined]
    IN  [error |-> errorResponse.error,
         suggestion |-> errorResponse.suggestion,
         statusCode |-> statusCode]

StatusEvent(id, message) ==
    [type |-> "data-status", id |-> id, data |-> [message |-> message]]
SourcesEvent(s, n, i) ==
    [type |-> "data-sources", id |-> "sources-1",
     data |-> [sources |-> s, newsResults |-> n, imageResults |-> i]]
TickerEvent(symbol) ==
    [type |-> "data-ticker", id |-> "ticker-1", data |-> [symbol |-> symbol]]
\* A chunk of the merged sub-stream: the k-th piece of the answer.
TokenEvent(k) == [type |-> "text-delta", id |-> "text", delta |-> k]
FollowUpEvent(questions) ==
    [type |-> "data-followup", id |-> "followup-1", data |-> [questions |-> questions]]
ErrorEvent(error) == [type |-> "data-error", id |-> "error-1", data |-> ErrorData(error)]

\* The events the spec calls durable; data-status parts are transient.
DurableTypes == {"data-sources", "data-ticker", "text-delta", "data-followup", "data-error"}

OfType(evs, type) == SelectSeq(evs, LAMBDA e : e.type = type)
Count(evs, type) == Len(OfType(evs, type))

-----------------------------------------------------------------------------
(* The request: body, query, configuration checks (line 8-83) *)

\* A part of a UI message; only text parts carry text.
TextPart(text) == [type |-> "text", text |-> text]
StepPart == [type |-> "step-start", text |-> Undefined]

\* A message of the v5 structure (a parts array) or of the v4 one (content).
UIMessage(role, parts) == [role |-> role, parts |-> JArr(parts), content |-> Undefined]
V4Message(role, content) == [role |-> role, parts |-> JUndef, content |-> content]

\* Array.prototype.join(' ')
RECURSIVE Join(_)
Join(texts) ==
    IF texts = <<>> THEN ""
    ELSE IF Len(texts) = 1 THEN texts[1]
    ELSE texts[1] \o " " \o Join(Tail(texts))

\* parts.filter(p => p.type === 'text').map(p => p.text).join(' ') (line 21-22, 520)
TextOf(parts) ==
    LET textParts == SelectSeq(parts, LAMBDA p : p.type = "text")
    IN  Join([i \in 1..Len(textParts) |-> textParts[i].text])

\* line 16-27: body.query, else the text of the last message
ExtractQuery(b) ==
    IF Truthy(b.query) \/ Len(b.messages) = 0 THEN b.query
    ELSE LET lastMessage == b.messages[Len(b.messages)]
         IN  IF IsArray(lastMessage.parts) THEN TextOf(lastMessage.parts.v)
             ELSE IF Truthy(lastMessage.content) THEN lastMessage.content
             ELSE b.query

\* The environment variables the handler requires (line 48-58).
RequiredEnv == {"FIRECRAWL_API_KEY", "OPENAI_API_KEY", "SEARXNG_BASE_URL"}

NoResponse == [kind |-> "none", status |-> 0, error |-> Undefined]
\* NextResponse.json({ error }, { status })
JsonResponse(status, error) == [kind |-> "json", status |-> status, error |-> error]
\* createUIMessageStreamResponse({ stream }) (line 613)
StreamResponse == [kind |-> "stream", status |-> 200, error |-> Undefined]

\* The checks answered with a stream regardless of what is missing.
RespondUnchecked(q, env) == StreamResponse

\* line 29-58 and 613: the response POST returns
Respond(q, env) ==
    IF ~Truthy(q) THEN JsonResponse(400, "Query is required")
    ELSE IF "FIRECRAWL_API_KEY" \notin env
    THEN JsonResponse(500, "Firecrawl API key not configured")
    ELSE IF "OPENAI_API_KEY" \notin env
    THEN JsonResponse(500, "OpenAI API key not configured")
    ELSE IF "SEARXNG_BASE_URL" \notin env
    THEN JsonResponse(500, "SearxNG base URL not configured")
    ELSE StreamResponse

\* line 83
isFollowUp(messages) == Len(messages) > 2

-----------------------------------------------------------------------------
(* The search calls (line 142-210) *)

Categories == {"web", "news", "images"}

Pending == [st |-> "pending"]
\* A promise whose value the join has read; nothing reads it again.
Consumed == [st |-> "consumed"]
Fulfilled(value) == [st |-> "fulfilled", value |-> value]
Rejected(reason) == [st |-> "rejected", reason |-> reason]

\* HTTP responses of the SearxNG instance: a JSON body, an HTTP error, a body
\* that is no JSON, no answer.
HttpOk(json) == [kind |-> "ok", json |-> json]
HttpError == [kind |-> "http"]
InvalidJson == [kind |-> "invalid"]
NetworkError == [kind |-> "network"]

\* performSourceSearch without the `if (!response.ok)` test: the body of an
\* HTTP error is returned as if it were the answer.
performSourceSearchNoOkTest(category, response) ==
    CASE response.kind = "ok" ->
            Fulfilled(IF response.json.t = "null" THEN Obj(<<>>) ELSE response.json)
      [] response.kind = "http" ->
            Fulfilled(Obj(<<>>))
      [] response.kind = "invalid" ->
            Rejected(Err("Unexpected token < in JSON at position 0", NoStatus, category))
      [] OTHER ->
            Rejected(Err("fetch failed", NoStatus, category))

\* performSourceSearch (line 142-183): `return json || {}`, or throw.
performSourceSearch(category, response) ==
    CASE response.kind = "ok" ->
            Fulfilled(IF response.json.t = "null" THEN Obj(<<>>) ELSE response.json)
      [] response.kind = "http" ->
            Rejected(Err("SearxNG search error: Bad Gateway", NoStatus, category))
      [] response.kind = "invalid" ->
            Rejected(Err("Unexpected token < in JSON at position 0", NoStatus, category))
      [] OTHER ->
            Rejected(Err("fetch failed", NoStatus, category))

\* The news and images calls without their try/catch.
BestEffortRethrows(outcome) == outcome

\* The try/catch around the news and images calls (line 188-209): return null.
BestEffort(outcome) ==
    IF outcome.st = "rejected" THEN Fulfilled(NullData) ELSE outcome

\* The promise Promise.all is given for a category (line 186-210).
SearchPromise(category, response) ==
    IF category = "web"
    THEN performSourceSearch(category, response)
    ELSE BestEffort(performSourceSearch(category, response))

\* A join that waits for the general search only; what has not answered yet
\* counts as no data.
PromiseAllWebOnly(ps) ==
    IF \E c \in DOMAIN ps : ps[c].st = "rejected"
    THEN Rejected(ps[CHOOSE c \in DOMAIN ps : ps[c].st = "rejected"].reason)
    ELSE IF ps["web"].st = "fulfilled"
    THEN Fulfilled([c \in DOMAIN ps |->
                       IF ps[c].st = "fulfilled" THEN ps[c].value ELSE NullData])
    ELSE Pending

\* Promise.all (line 186): rejected as soon as one promise is, fulfilled with
\* every value once all are.
PromiseAll(ps) ==
    IF \E c \in DOMAIN ps : ps[c].st = "rejected"
    THEN Rejected(ps[CHOOSE c \in DOMAIN ps : ps[c].st = "rejected"].reason)
    ELSE IF \A c \in DOMAIN ps : ps[c].st = "fulfilled"
    THEN Fulfilled([c \in DOMAIN ps |-> ps[c].value])
    ELSE Pending

-----------------------------------------------------------------------------
(* Result extraction and normalization (line 213-320) *)

\* line 213
WebResultsOf(webData) ==
    IF IsArray(Key(webData, "results")) THEN Key(webData, "results").v ELSE <<>>

\* line 214-218 and 219-223: `results`, else the category's own key, else []
FallbackResultsOf(data, altKey) ==
    IF IsArray(Key(data, "results")) THEN Key(data, "results").v
    ELSE IF IsArray(Key(data, altKey)) THEN Key(data, altKey).v
    ELSE <<>>

\* A property access on a null item throws a TypeError inside .map().
MapThrows(items) == \E i \in 1..Len(items) : items[i].t = "null"

Dropped == [dropped |-> TRUE]
Kept(seq) == SelectSeq(seq, LAMBDA x : x # Dropped)

\* line 241-255
WebItem(item) ==
    LET url == Or2(Or2(Prop(item, "url"), Prop(item, "href")), Prop(item, "link"))
    IN  IF ~Truthy(url) THEN Dropped
        ELSE [url |-> url,
              title |-> Or2(Prop(item, "title"), url),
              description |-> Or2(Or2(Prop(item, "content"), Prop(item, "summary")),
                                  Prop(item, "abstract")),
              content |-> Prop(item, "content"),
              markdown |-> Undefined]

\* line 240-265
NormalizeWeb(webResults) ==
    Kept([i \in 1..Len(webResults) |-> WebItem(webResults[i])])

\* line 268-295: every item is mapped, then those without url are filtered out
NewsItem(item) ==
    LET itemUrl == Or2(Or2(Or2(Prop(item, "url"), Prop(item, "link")),
                           Prop(item, "pageUrl")), Prop(item, "sourceUrl"))
    IN  [url |-> itemUrl,
         title |-> Prop(item, "title"),
         description |-> Or2(Or2(Prop(item, "content"), Prop(item, "summary")),
                             Prop(item, "description"))]

\* The news items mapped but not filtered.
NormalizeNewsUnfiltered(newsSource) ==
    [i \in 1..Len(newsSource) |-> NewsItem(newsSource[i])]

NormalizeNews(newsSource) ==
    SelectSeq([i \in 1..Len(newsSource) |-> NewsItem(newsSource[i])],
              LAMBDA n : Truthy(n.url))

\* line 298-320
ImageItem(item) ==
    LET targetUrl == Or2(Or2(Or2(Or2(Prop(item, "url"), Prop(item, "link")),
                                 Prop(item, "pageUrl")), Prop(item, "sourceUrl")),
                         Prop(item, "img_src"))
    IN  IF ~Truthy(targetUrl) THEN Dropped
        ELSE [url |-> targetUrl,
              title |-> Or2(Prop(item, "title"), "Untitled"),
              thumbnail |-> Or2(Or2(Or2(Prop(item, "imageUrl"), Prop(item, "image_url")),
                                    Or2(Prop(item, "image"), Prop(item, "thumbnail"))),
                                Or2(Or2(Prop(item, "thumbnailUrl"), Prop(item, "img_src")),
                                    Prop(item, "thumbnail_src")))]

NormalizeImages(imageSource) ==
    Kept([i \in 1..Len(imageSource) |-> ImageItem(imageSource[i])])

-----------------------------------------------------------------------------
(* Enrichment (line 323-373) *)

\* Number(process.env.FIRECRAWL_SCRAPE_LIMIT ?? 5): the default when unset
DefaultScrapeLimit == 5

\* Values of FIRECRAWL_SCRAPE_LIMIT: unset, not a number, or a number given in tenths.
EnvUnset == [set |-> FALSE, finite |-> FALSE, tenths |-> 0]
EnvNaN == [set |-> TRUE, finite |-> FALSE, tenths |-> 0]
EnvNum(tenths) == [set |-> TRUE, finite |-> TRUE, tenths |-> tenths]

\* line 332-333: parsedLimit and scrapeLimit
ScrapeLimit(env) ==
    LET parsedLimit == IF env.set THEN env ELSE EnvNum(DefaultScrapeLimit * 10)
    IN  IF parsedLimit.finite /\ parsedLimit.tenths > 0
        THEN parsedLimit.tenths \div 10
        ELSE DefaultScrapeLimit

\* Every source is scraped: the slice is forgotten.
TargetsUnsliced(srcs, limit) == srcs

\* line 334: sources.slice(0, Math.max(1, scrapeLimit))
Targets(srcs, limit) ==
    SubSeq(srcs, 1, Min(Len(srcs), Max(1, limit)))

\* Answers of the scrape endpoint: data.markdown and data.content, or a failure.
ScrapeOk(markdown, content) == [ok |-> TRUE, markdown |-> markdown, content |-> content]
ScrapeFailed == [ok |-> FALSE, markdown |-> Undefined, content |-> Undefined]

\* The async function mapped over targets (line 337-362).
ScrapeOne(source, response) ==
    IF ~response.ok
    THEN Rejected(Err("scrape failed", NoStatus, "scrape"))
    ELSE Fulfilled([url |-> source.url,
                    markdown |-> Or2(response.markdown, Undefined),
                    content |-> Or2(response.content, Undefined)])

\* Promise.race in place of Promise.allSettled: one settled promise is enough.
FirstSettled(results) ==
    results = <<>> \/ \E i \in 1..Len(results) : results[i].st # "pending"

\* Promise.allSettled (line 336) resolves once every promise has settled.
AllSettled(results) == \A i \in 1..Len(results) : results[i].st # "pending"

\* The matched source is replaced by what the scrape returned instead of
\* having two of its fields assigned.
ApplyResultReplaces(srcs, result) ==
    IF result.st # "fulfilled" THEN srcs
    ELSE LET hits == {i \in 1..Len(srcs) : srcs[i].url = result.value.url}
         IN  IF hits = {} THEN srcs
             ELSE LET match == CHOOSE i \in hits : \A j \in hits : i <= j
                  IN  [srcs EXCEPT ![match] =
                         [url |-> result.value.url,
                          title |-> result.value.url,
                          description |-> Undefined,
                          content |-> result.value.content,
                          markdown |-> result.value.markdown]]

\* The fetched values are assigned whether they are there or not.
ApplyResultOverwrites(srcs, result) ==
    IF result.st # "fulfilled" THEN srcs
    ELSE LET hits == {i \in 1..Len(srcs) : srcs[i].url = result.value.url}
         IN  IF hits = {} THEN srcs
             ELSE LET match == CHOOSE i \in hits : \A j \in hits : i <= j
                  IN  [srcs EXCEPT
                         ![match].markdown = result.value.markdown,
                         ![match].content = result.value.content]

\* The fetched values are assigned to the last source with the URL.
ApplyResultLastMatch(srcs, result) ==
    IF result.st # "fulfilled" THEN srcs
    ELSE LET hits == {i \in 1..Len(srcs) : srcs[i].url = result.value.url}
         IN  IF hits = {} THEN srcs
             ELSE LET match == CHOOSE i \in hits : \A j \in hits : i >= j
                  IN  [srcs EXCEPT
                         ![match].markdown = Or2(result.value.markdown, @),
                         ![match].content = Or2(result.value.content, @)]

\* The body of scraped.forEach (line 365-373) for one result.
ApplyResult(srcs, result) ==
    IF result.st # "fulfilled" THEN srcs
    ELSE LET hits == {i \in 1..Len(srcs) : srcs[i].url = result.value.url}
         IN  IF hits = {} THEN srcs
             ELSE LET match == CHOOSE i \in hits : \A j \in hits : i <= j
                  IN  [srcs EXCEPT
                         ![match].markdown = Or2(result.value.markdown, @),
                         ![match].content = Or2(result.value.content, @)]

RECURSIVE ApplyFrom(_, _, _)
ApplyFrom(srcs, results, k) ==
    IF k > Len(results) THEN srcs
    ELSE ApplyFrom(ApplyResult(srcs, results[k]), results, k + 1)

\* One rejected scrape discards them all.
ApplyScrapedAllOrNothing(srcs, results) ==
    IF \E k \in 1..Len(results) : results[k].st = "rejected"
    THEN srcs
    ELSE ApplyFrom(srcs, results, 1)

\* scraped.forEach (line 365-373)
ApplyScraped(srcs, results) == ApplyFrom(srcs, results, 1)

\* What the branch without web sources writes (line 385-396).
NoEnrichmentWrites(s, n, i) == <<SourcesEvent(s, n, i)>>

\* What is written once enrichment has settled (line 375-405).
EnrichedWrites(s, n, i) ==
    <<SourcesEvent(s, n, i),
      StatusEvent("status-2b", "Analyzing detailed content...")>>

-----------------------------------------------------------------------------
(* Ticker, context, follow-up post-processing (line 418-435, 545-550) *)

\* detectCompanyTicker of @/lib/company-ticker-map: a symbol, or null.
detectCompanyTicker(q) == IF q = "tesla stock" THEN "TSLA" ELSE Null

\* selectRelevantContent of @/lib/content-selection: a document no longer than
\* the budget is returned unchanged; the model's documents are all that short.
selectRelevantContent(content, q, budget) == content

\* The blocks numbered by the 0-based index.
BuildContextZeroBased(srcs, q) ==
    [i \in 1..Len(srcs) |->
        LET index == i - 1
            source == srcs[i]
            content == Or2(Or2(source.markdown, source.content), "")
        IN  [marker |-> index,
             title |-> source.title,
             url |-> source.url,
             excerpt |-> selectRelevantContent(content, q, 2000)]]

\* line 429-435; the blocks are kept apart instead of joined by the separator
BuildContext(srcs, q) ==
    [i \in 1..Len(srcs) |->
        LET index == i - 1
            source == srcs[i]
            content == Or2(Or2(source.markdown, source.content), "")
        IN  [marker |-> index + 1,
             title |-> source.title,
             url |-> source.url,
             excerpt |-> selectRelevantContent(content, q, 2000)]]

\* A ModelMessage. The user message of the current turn is kept as its two
\* interpolated values, the query and the context, instead of as one string.
ModelMessage(role, content) ==
    [role |-> role, content |-> content, query |-> Undefined, context |-> <<>>]

\* The first sentence of the two system prompts (line 446, 476).
SystemInitial == "You are a friendly assistant that helps users find information."
SystemContinuing == "You are a friendly assistant continuing our conversation."

\* line 467-468 and 496-497
CurrentTurn(q, ctx) ==
    [role |-> "user", content |-> "Answer this query", query |-> q, context |-> ctx]

\* convertToModelMessages of the ai package, for messages made of parts: the
\* role is kept and the content is what the text parts hold.
convertToModelMessages(msgs) ==
    [i \in 1..Len(msgs) |-> ModelMessage(msgs[i].role, TextOf(msgs[i].parts.v))]

\* messages.slice(0, -1)
AllButLast(msgs) == SubSeq(msgs, 1, Len(msgs) - 1)

\* line 439-500
AiMessages(messages, q, ctx) ==
    IF ~isFollowUp(messages)
    THEN <<ModelMessage("system", SystemInitial), CurrentTurn(q, ctx)>>
    ELSE <<ModelMessage("system", SystemContinuing)>>
         \o convertToModelMessages(AllButLast(messages))
         \o <<CurrentTurn(q, ctx)>>

\* A text is kept as its number of characters: the answer is the tokens in
\* the order they were yielded, so a prefix is known by its length.
Text(chars) == [chars |-> chars]

\* const fullAnswer = await result.text (line 514): every token yielded
FullAnswer(produced) == Text(produced * TokenChars)

\* fullAnswer.substring(0, 500): the number of characters kept (line 538)
PreviewChars == 500

\* String.prototype.substring(0, end)
Substring(text, end) == Text(Min(text.chars, end))

NoFollowUpInput == [query |-> Undefined, answer |-> Text(0), titles |-> <<>>]

\* The user message of the follow-up call (line 536-539): the query, the
\* beginning of the answer, and the titles of the sources when there are any.
FollowUpInput(q, fullAnswer, srcs) ==
    [query |-> q,
     answer |-> Substring(fullAnswer, PreviewChars),
     titles |-> IF Len(srcs) > 0 THEN [i \in 1..Len(srcs) |-> srcs[i].title] ELSE <<>>]

\* String.prototype.trim on the lines the model uses
Trim(line) ==
    CASE line = " " -> ""
      [] line = " q2 " -> "q2"
      [] OTHER -> line

\* The lines trimmed and filtered, but not cut to five.
FollowUpQuestionsUnsliced(lines) ==
    LET trimmed == [i \in 1..Len(lines) |-> Trim(lines[i])]
    IN  SelectSeq(trimmed, LAMBDA q : q # "")

\* line 546-550: split('\n') is the sequence of lines
FollowUpQuestions(lines) ==
    LET trimmed == [i \in 1..Len(lines) |-> Trim(lines[i])]
        kept == SelectSeq(trimmed, LAMBDA q : q # "")
    IN  SubSeq(kept, 1, Min(Len(kept), 5))

-----------------------------------------------------------------------------
(* Inputs: what the collaborators may answer *)

SeqsUpTo(S, n) == UNION {[1..k -> S] : k \in 0..n}

\* Request bodies: a first turn whose query is spread over two text parts, a
\* turn after one earlier message (v4 structure, query in content), a turn after
\* two earlier messages with the query given in the body, and two bodies from
\* which no query can be taken.
Bodies ==
    {[query |-> Undefined,
      messages |-> <<UIMessage("user", <<StepPart, TextPart("tesla"), TextPart("stock")>>)>>],
     [query |-> Undefined,
      messages |-> <<UIMessage("user", <<TextPart("hi")>>), V4Message("user", "hello")>>],
     [query |-> "hello",
      messages |-> <<UIMessage("user", <<TextPart("tesla stock")>>),
                     UIMessage("assistant", <<StepPart, TextPart("TSLA rose")>>),
                     UIMessage("user", <<TextPart("hello")>>)>>],
     [query |-> Undefined, messages |-> <<>>],
     [query |-> Undefined, messages |-> <<UIMessage("user", <<StepPart>>)>>]}

\* Which of the required environment variables are set.
Configurations == SUBSET RequiredEnv

\* Raw items of the general search: a well-formed one, one whose URL is found
\* under link after an empty url and a null href and whose title is empty, one
\* without any URL, and a null. A URL is repeated when an item is.
WebItems ==
    {Obj([url |-> "u1", title |-> "T1", content |-> "c1"]),
     Obj([url |-> "", href |-> Null, link |-> "u2", title |-> ""]),
     Obj([url |-> "", title |-> "T4"]),
     NullItem}

WebPayloads ==
    {Obj([results |-> JArr(items)]) : items \in SeqsUpTo(WebItems, MaxWeb)}
    \cup {NullData, Obj([results |-> JStr])}

\* News answers: items under `results` (one without URL), items under `news`
\* while `results` is no array (one a number), and a null item.
NewsPayloads ==
    {Obj([results |-> JArr(<<Obj([url |-> "n1", title |-> "N1"]), Obj([title |-> "N2"])>>)]),
     Obj([results |-> JStr,
          news |-> JArr(<<NumItem, Obj([pageUrl |-> "n1", title |-> "N1"])>>)]),
     Obj([results |-> JArr(<<NullItem>>)])}

\* Image answers: items under `results` (one a string, one without URL), items
\* under `images`, and a null item.
ImagePayloads ==
    {Obj([results |-> JArr(<<Obj([img_src |-> "i1"]), StrItem, Obj([title |-> "I3"])>>)]),
     Obj([images |-> JArr(<<Obj([img_src |-> "i1"]), StrItem>>)]),
     Obj([results |-> JArr(<<NullItem>>)])}

PayloadsOf(category) ==
    CASE category = "web" -> WebPayloads
      [] category = "news" -> NewsPayloads
      [] OTHER -> ImagePayloads

SearchResponses(category) ==
    {HttpOk(json) : json \in PayloadsOf(category)}
    \cup {HttpError, InvalidJson, NetworkError}

ScrapeLimitEnvs == {EnvUnset, EnvNaN, EnvNum(0), EnvNum(5), EnvNum(27)}

ScrapeResponses == {ScrapeOk("M", Undefined), ScrapeOk("", "X"), ScrapeFailed}

\* Failures of the generation call: one for each status code of the table, one
\* with another status code, one without.
GenerationErrors ==
    {Err("Unauthorized", 401, "generation"),
     Err("Payment Required", 402, "generation"),
     Err("Too Many Requests", 429, "generation"),
     Err("Gateway Timeout", 504, "generation"),
     Err("Internal Server Error", 500, "generation"),
     Err("stream broke", NoStatus, "generation")}

\* The follow-up model's answer, as its lines: an empty answer, and seven lines
\* of which one is blank and one has blanks around it
FollowUpTexts == {<<"">>, <<"q1", " ", " q2 ", "q3", "q4", "q5", "q6">>}

-----------------------------------------------------------------------------
(* State machine *)

requestVars == <<body, configured>>
searchVars == <<promises, callFailed>>
dataVars == <<sources, newsResults, imageResults, normalized>>
enrichVars == <<scrapeLimit, scraped>>
answerVars == <<context, aiMessages, gen, followUp, followUpInput, followUpText>>

NoGeneration == [st |-> "idle", produced |-> 0, forwarded |-> 0, error |-> NoError]

Init ==
    /\ pc = "request"
    /\ body \in Bodies
    /\ configured \in Configurations
    /\ returned = NoResponse
    /\ query = Undefined
    /\ promises = [c \in Categories |-> Pending]
    /\ callFailed = {}
    /\ sources = <<>>
    /\ newsResults = <<>>
    /\ imageResults = <<>>
    /\ normalized = <<>>
    /\ scrapeLimit = DefaultScrapeLimit
    /\ scraped = <<>>
    /\ context = <<>>
    /\ aiMessages = <<>>
    /\ gen = NoGeneration
    /\ followUp = "none"
    /\ followUpInput = NoFollowUpInput
    /\ followUpText = <<>>
    /\ caught = NoError
    /\ events = <<>>
    /\ closed = FALSE

\* POST up to its return (line 8-88, 613): the query is taken from the body,
\* and either an error response is returned or the response is the stream
\* whose execute callback then runs.
Post ==
    /\ pc = "request"
    /\ query' = ExtractQuery(body)
    /\ returned' = Respond(query', configured)
    /\ pc' = IF returned'.kind = "stream" THEN "start" ELSE "rejected"
    /\ UNCHANGED <<requestVars, searchVars, dataVars, enrichVars, answerVars, caught,
                   events, closed>>

\* A catch block that logs the error and writes nothing.
CatchWithoutWrite(error) ==
    /\ caught' = error
    /\ events' = events
    /\ pc' = "done"

\* The catch block of execute (line 562-609): one data-error part, then execute returns.
Catch(error) ==
    /\ caught' = error
    /\ events' = Append(events, ErrorEvent(error))
    /\ pc' = "done"

\* execute up to the await of Promise.all (line 88-210): two status parts, three calls.
Start ==
    /\ pc = "start"
    /\ events' = events \o <<StatusEvent("status-1", "Starting search..."),
                             StatusEvent("status-2", "Searching for relevant sources...")>>
    /\ pc' = "search"
    /\ UNCHANGED <<requestVars, returned, query, searchVars, dataVars, enrichVars,
                   answerVars, caught, closed>>

\* A search call answers or fails (line 167-182, 188-209).
SearchSettles(category, response) ==
    /\ pc \notin {"request", "rejected", "start"}
    /\ promises[category].st = "pending"
    /\ promises' = [promises EXCEPT ![category] = SearchPromise(category, response)]
    /\ callFailed' = IF response.kind # "ok" THEN callFailed \cup {category} ELSE callFailed
    /\ UNCHANGED <<pc, requestVars, returned, query, dataVars, enrichVars, answerVars,
                   caught, events, closed>>

\* Promise.all rejects as soon as one of its promises does (line 186), and the
\* catch block runs.
SearchRejected ==
    /\ pc = "search"
    /\ PromiseAll(promises).st = "rejected"
    /\ Catch(PromiseAll(promises).reason)
    /\ UNCHANGED <<requestVars, returned, query, searchVars, dataVars, enrichVars,
                   answerVars, closed>>

\* Promise.all resolves: extraction, normalization, and either the start of the
\* scrapes or the emission without enrichment (line 213-336, 385-408).
SearchFulfilled ==
    /\ pc = "search"
    /\ PromiseAll(promises).st = "fulfilled"
    /\ LET data == PromiseAll(promises).value
           webResults == WebResultsOf(data["web"])
           newsSource == FallbackResultsOf(data["news"], "news")
           imageSource == FallbackResultsOf(data["images"], "images")
           typeError(origin) == Err("Cannot read properties of null", NoStatus, origin)
       IN  IF MapThrows(webResults)
           THEN /\ Catch(typeError("web-map"))
                /\ UNCHANGED <<dataVars, enrichVars>>
           ELSE IF MapThrows(newsSource)
           THEN /\ Catch(typeError("news-map"))
                /\ sources' = NormalizeWeb(webResults)
                /\ UNCHANGED <<newsResults, imageResults, normalized, enrichVars>>
           ELSE IF MapThrows(imageSource)
           THEN /\ Catch(typeError("images-map"))
                /\ sources' = NormalizeWeb(webResults)
                /\ newsResults' = NormalizeNews(newsSource)
                /\ UNCHANGED <<imageResults, normalized, enrichVars>>
           ELSE /\ sources' = NormalizeWeb(webResults)
                /\ newsResults' = NormalizeNews(newsSource)
                /\ imageResults' = NormalizeImages(imageSource)
                /\ normalized' = sources'
                /\ caught' = caught
                /\ IF Len(sources') > 0
                   THEN \E env \in ScrapeLimitEnvs :
                          /\ scrapeLimit' = ScrapeLimit(env)
                          /\ scraped' = [i \in 1..Len(Targets(sources', scrapeLimit'))
                                            |-> Pending]
                          /\ events' = Append(events,
                                 StatusEvent("status-3a", "Fetching full article content..."))
                          /\ pc' = "enrich"
                   ELSE /\ UNCHANGED enrichVars
                        /\ events' = events \o
                               NoEnrichmentWrites(sources', newsResults', imageResults')
                        /\ pc' = "delay"
    \* the values the join has read are kept no longer
    /\ promises' = [c \in Categories |->
                       IF promises[c].st = "fulfilled" THEN Consumed ELSE promises[c]]
    /\ UNCHANGED <<requestVars, returned, query, callFailed, answerVars, closed>>

\* One scrape settles (line 337-362); the i-th is the one for the i-th target.
ScrapeSettles(i, response) ==
    /\ i \in 1..Len(scraped)
    /\ scraped[i].st = "pending"
    /\ scraped' = [scraped EXCEPT ![i] = ScrapeOne(sources[i], response)]
    /\ UNCHANGED <<pc, requestVars, returned, query, searchVars, dataVars, scrapeLimit,
                   answerVars, caught, events, closed>>

\* Promise.allSettled resolves: the results are applied and the bundle is
\* written (line 365-408).
EnrichmentSettled ==
    /\ pc = "enrich"
    /\ AllSettled(scraped)
    /\ sources' = ApplyScraped(sources, scraped)
    /\ events' = events \o EnrichedWrites(sources', newsResults, imageResults)
    /\ pc' = "delay"
    /\ UNCHANGED <<requestVars, returned, query, searchVars, newsResults, imageResults,
                   normalized, enrichVars, answerVars, caught, closed>>

\* The ticker part written only when the search gave web sources.
StartGenerationTickerIfSources ==
    /\ pc = "delay"
    /\ LET ticker == detectCompanyTicker(query)
       IN  events' = events
                \o <<StatusEvent("status-3", "Analyzing sources and generating answer...")>>
                \o (IF Truthy(ticker) /\ Len(sources) > 0 THEN <<TickerEvent(ticker)>> ELSE <<>>)
    /\ context' = BuildContext(sources, query)
    /\ aiMessages' = AiMessages(body.messages, query, context')
    /\ gen' = [NoGeneration EXCEPT !.st = "streaming"]
    /\ pc' = "generate"
    /\ UNCHANGED <<requestVars, returned, query, searchVars, dataVars, enrichVars,
                   followUp, followUpInput, followUpText, caught, closed>>

\* After the delay: status, ticker, context, aiMessages, streamText and
\* writer.merge, up to the await of result.text (line 408-514).
StartGeneration ==
    /\ pc = "delay"
    /\ LET ticker == detectCompanyTicker(query)
       IN  events' = events
                \o <<StatusEvent("status-3", "Analyzing sources and generating answer...")>>
                \o (IF Truthy(ticker) THEN <<TickerEvent(ticker)>> ELSE <<>>)
    /\ context' = BuildContext(sources, query)
    /\ aiMessages' = AiMessages(body.messages, query, context')
    /\ gen' = [NoGeneration EXCEPT !.st = "streaming"]
    /\ pc' = "generate"
    /\ UNCHANGED <<requestVars, returned, query, searchVars, dataVars, enrichVars,
                   followUp, followUpInput, followUpText, caught, closed>>

\* The generation service yields a token of the answer.
GenerationYields ==
    /\ gen.st = "streaming"
    /\ gen.produced < MaxTokens
    /\ gen' = [gen EXCEPT !.produced = @ + 1]
    /\ UNCHANGED <<pc, requestVars, returned, query, searchVars, dataVars, enrichVars,
                   context, aiMessages, followUp, followUpInput, followUpText, caught, events, closed>>

\* The generation service ends the answer.
GenerationFinishes ==
    /\ gen.st = "streaming"
    /\ gen' = [gen EXCEPT !.st = "finished"]
    /\ UNCHANGED <<pc, requestVars, returned, query, searchVars, dataVars, enrichVars,
                   context, aiMessages, followUp, followUpInput, followUpText, caught, events, closed>>

\* The generation service fails: with an HTTP status in answer to the request,
\* before any token, or without one at any moment of the stream.
GenerationFails(error) ==
    /\ gen.st = "streaming"
    /\ error.status # NoStatus => gen.produced = 0
    /\ gen' = [gen EXCEPT !.st = "failed", !.error = error]
    /\ UNCHANGED <<pc, requestVars, returned, query, searchVars, dataVars, enrichVars,
                   context, aiMessages, followUp, followUpInput, followUpText, caught, events, closed>>

\* A merge that does not keep what was queued before it in front: the chunk
\* is put at the head of the stream.
MergeForwardsJumpsQueue ==
    /\ gen.forwarded < gen.produced
    /\ events' = <<TokenEvent(gen.forwarded + 1)>> \o events
    /\ gen' = [gen EXCEPT !.forwarded = @ + 1]
    /\ UNCHANGED <<pc, requestVars, returned, query, searchVars, dataVars, enrichVars,
                   context, aiMessages, followUp, followUpInput, followUpText, caught, closed>>

\* The sub-stream given to writer.merge (line 511) forwards its next chunk.
\* The callback awaits result.text (line 514), not the sub-stream: nothing in
\* the code orders this step with respect to the callback's later writes.
MergeForwards ==
    /\ gen.forwarded < gen.produced
    /\ events' = Append(events, TokenEvent(gen.forwarded + 1))
    /\ gen' = [gen EXCEPT !.forwarded = @ + 1]
    /\ UNCHANGED <<pc, requestVars, returned, query, searchVars, dataVars, enrichVars,
                   context, aiMessages, followUp, followUpInput, followUpText, caught, closed>>

\* result.text resolves (line 514); the follow-up call is made (line 517-543).
AnswerResolved ==
    /\ pc = "generate"
    /\ gen.st = "finished"
    /\ followUp' = "pending"
    /\ followUpInput' = FollowUpInput(query, FullAnswer(gen.produced), sources)
    /\ pc' = "followup"
    /\ UNCHANGED <<requestVars, returned, query, searchVars, dataVars, enrichVars,
                   context, aiMessages, gen, followUpText, caught, events, closed>>

\* result.text rejects (line 514) and the catch block runs.
AnswerRejected ==
    /\ pc = "generate"
    /\ gen.st = "failed"
    /\ Catch(gen.error)
    /\ UNCHANGED <<requestVars, returned, query, searchVars, dataVars, enrichVars,
                   answerVars, closed>>

\* generateText returns (line 545-557).
FollowUpReturns(lines) ==
    /\ pc = "followup"
    /\ followUp' = "ok"
    /\ followUpText' = lines
    /\ events' = Append(events, FollowUpEvent(FollowUpQuestions(lines)))
    /\ pc' = "done"
    /\ UNCHANGED <<requestVars, returned, query, searchVars, dataVars, enrichVars,
                   context, aiMessages, gen, followUpInput, caught, closed>>

\* generateText throws with no try/catch around it: the catch block of
\* execute receives the error.
FollowUpFailsUncaught ==
    /\ pc = "followup"
    /\ followUp' = "failed"
    /\ Catch(Err("follow-up failed", NoStatus, "followup"))
    /\ UNCHANGED <<requestVars, returned, query, searchVars, dataVars, enrichVars,
                   context, aiMessages, gen, followUpInput, followUpText, closed>>

\* generateText throws; the inner catch swallows it (line 558-560).
FollowUpFails ==
    /\ pc = "followup"
    /\ followUp' = "failed"
    /\ pc' = "done"
    /\ UNCHANGED <<requestVars, returned, query, searchVars, dataVars, enrichVars,
                   context, aiMessages, gen, followUpInput, followUpText, caught, events, closed>>

\* The stream closes once execute has returned and the merged sub-stream has ended.
StreamCloses ==
    /\ pc = "done"
    /\ ~closed
    /\ gen.st # "streaming"
    /\ gen.forwarded = gen.produced
    /\ closed' = TRUE
    /\ UNCHANGED <<pc, requestVars, returned, query, searchVars, dataVars, enrichVars,
                   answerVars, caught, events>>

Next ==
    \/ Post
    \/ Start
    \/ \E c \in Categories : \E r \in SearchResponses(c) : SearchSettles(c, r)
    \/ SearchRejected
    \/ SearchFulfilled
    \/ \E i \in 1..MaxWeb : \E r \in ScrapeResponses : ScrapeSettles(i, r)
    \/ EnrichmentSettled
    \/ StartGeneration
    \/ GenerationYields
    \/ GenerationFinishes
    \/ \E e \in GenerationErrors : GenerationFails(e)
    \/ MergeForwards
    \/ AnswerResolved
    \/ AnswerRejected
    \/ \E lines \in FollowUpTexts : FollowUpReturns(lines)
    \/ FollowUpFails
    \/ StreamCloses

Spec == Init /\ [][Next]_vars

\* The steps the route itself takes: the handler, the continuations of execute
\* after each await, the forwarding of the merged sub-stream and the close of
\* the stream. The event loop runs each of them once it is ready.
RouteSteps ==
    \/ Post
    \/ Start
    \/ SearchRejected
    \/ SearchFulfilled
    \/ EnrichmentSettled
    \/ StartGeneration
    \/ MergeForwards
    \/ AnswerResolved
    \/ AnswerRejected
    \/ StreamCloses

\* A call made to a collaborator returns or fails: a search (line 167-182), a
\* scrape (line 337-362), the answer stream (line 503-514), the follow-up
\* generation (line 527-543).
CollaboratorSettles ==
    \/ \E c \in Categories : \E r \in SearchResponses(c) : SearchSettles(c, r)
    \/ \E i \in 1..MaxWeb : \E r \in ScrapeResponses : ScrapeSettles(i, r)
    \/ GenerationFinishes
    \/ \E e \in GenerationErrors : GenerationFails(e)
    \/ \E lines \in FollowUpTexts : FollowUpReturns(lines)
    \/ FollowUpFails

\* The route under the assumption that no ready step waits for ever and that
\* no call to a collaborator stays pending for ever.
FairSpec == Spec /\ WF_vars(RouteSteps) /\ WF_vars(CollaboratorSettles)

-----------------------------------------------------------------------------
(* Properties *)

ErrorEvents == OfType(events, "data-error")
SourcesEvents == OfType(events, "data-sources")
\* The bundle the caller holds: the data of the latest data-sources part.
LastBundle == SourcesEvents[Len(SourcesEvents)].data

BestEffortFailed == callFailed \cap {"news", "images"} # {}
\* The origins of an error thrown while raw items are mapped.
MapOrigins == {"web-map", "news-map", "images-map"}
\* Promise.all has resolved and the three collections were normalized.
NormalizationDone == pc \in {"enrich", "delay", "generate", "followup"}
                     \/ (pc = "done" /\ caught.origin \notin MapOrigins \cup Categories)
GenerationStarted == gen.st # "idle"

\* C1: if the general search fails, the stream never carries a sources or a
\* token-delta event and at most one error event, and once the callback has
\* returned it carries exactly one error event, whose message is not empty,
\* whatever the news and images searches did.
C1_GeneralSearchFailure ==
    "web" \in callFailed =>
        /\ Count(events, "data-sources") = 0
        /\ Count(events, "text-delta") = 0
        /\ Len(ErrorEvents) <= 1
        /\ pc = "done" => /\ Len(ErrorEvents) = 1
                          /\ Truthy(ErrorEvents[1].data.error)

\* The general search failed, news returned results, images failed, and the
\* stream has closed.
C1_Witness ==
    /\ closed
    /\ "web" \in callFailed
    /\ "images" \in callFailed
    /\ promises["news"].st = "fulfilled"
    /\ promises["news"].value # NullData

\* C2: a failed news or images search leaves that category's collection empty
\* in every emitted bundle, never reaches the catch block (no error event comes
\* from it), does not keep Promise.all from resolving, and a request that ends
\* without a caught error has gone through generation and the follow-up call,
\* and through the scrapes when there were web sources.
C2_BestEffortFailure ==
    BestEffortFailed =>
        /\ \A k \in 1..Len(SourcesEvents) :
              /\ "news" \in callFailed => SourcesEvents[k].data.newsResults = <<>>
              /\ "images" \in callFailed => SourcesEvents[k].data.imageResults = <<>>
        /\ caught.origin \notin {"news", "images"}
        /\ (pc = "search" /\ "web" \notin callFailed
                /\ \A c \in Categories : promises[c].st # "pending")
              => ENABLED SearchFulfilled
        /\ (pc = "done" /\ caught = NoError) =>
              /\ gen.st = "finished"
              /\ followUp \in {"ok", "failed"}
              /\ Len(SourcesEvents) >= 1
              /\ Len(normalized) > 0 => Len(scraped) > 0

\* News and images both failed, the general search gave sources, and the
\* request ran through enrichment, generation and follow-up without an error.
C2_Witness ==
    /\ closed
    /\ callFailed = {"news", "images"}
    /\ Len(scraped) > 0
    /\ followUp = "ok"
    /\ ErrorEvents = <<>>
    /\ LastBundle.newsResults = <<>>

\* C3: with L = max(1, scrapeLimit) and N > L normalized web sources, exactly
\* the first L sources are scraped (the i-th scrape is for the i-th source), and
\* at every later moment each source at a position beyond L has the markdown
\* and content normalization gave it.
C3_EnrichmentBounded ==
    LET N == Len(normalized)
        L == Max(1, scrapeLimit)
    IN  (NormalizationDone /\ N > L) =>
            /\ Len(scraped) = L
            /\ \A i \in 1..Len(scraped) :
                  scraped[i].st = "fulfilled" => scraped[i].value.url = normalized[i].url
            /\ Len(sources) = N
            /\ \A i \in (L + 1)..N :
                  /\ sources[i].markdown = normalized[i].markdown
                  /\ sources[i].content = normalized[i].content

\* Two sources with limit 1: the first was enriched, enrichment has been
\* applied and the answer is being generated.
C3_Witness ==
    /\ GenerationStarted
    /\ Len(normalized) = 2
    /\ Max(1, scrapeLimit) = 1
    /\ sources[1].markdown = "M"
    /\ sources[2].url # sources[1].url

\* C4: at most one error event is on the stream, and no durable event follows
\* an error event.
C4_ErrorIsTerminal ==
    /\ Len(ErrorEvents) <= 1
    /\ \A i \in 1..Len(events) : \A j \in (i + 1)..Len(events) :
          events[i].type = "data-error" => events[j].type \notin DurableTypes

\* C5: once generation has started every scrape has settled, and the context
\* is the one built from the normalized sources with every scrape result applied.
C5_GenerationAfterEnrichment ==
    GenerationStarted =>
        /\ \A i \in 1..Len(scraped) : scraped[i].st \in {"fulfilled", "rejected"}
        /\ context = BuildContext(ApplyScraped(normalized, scraped), query)

\* Generation runs after two scrapes, the first rejected and the second
\* fulfilled with markdown that is in the context.
C5_Witness ==
    /\ GenerationStarted
    /\ Len(scraped) = 2
    /\ scraped[1].st = "rejected"
    /\ scraped[2].st = "fulfilled"
    /\ context[2].excerpt = "M"

\* C6: a built context has one block per web source of the bundle the caller
\* holds, in its order: the block of the i-th element (0-based) carries marker
\* i+1 and that element's title and url.
C6_CitationOrder ==
    GenerationStarted =>
        /\ Len(SourcesEvents) >= 1
        /\ Len(context) = Len(LastBundle.sources)
        /\ \A k \in 1..Len(context) :
              LET i == k - 1
              IN  /\ context[k].marker = i + 1
                  /\ context[k].title = LastBundle.sources[k].title
                  /\ context[k].url = LastBundle.sources[k].url

\* A context of two blocks for two different URLs.
C6_Witness ==
    /\ GenerationStarted
    /\ Len(context) = 2
    /\ context[1].url # context[2].url

C8_NormalizationNeverThrows == caught.origin \notin MapOrigins

\* C9: with web sources, the bundle is on the stream once when the scrapes
\* start and twice once they have settled.
C9_EmittedTwice ==
    (NormalizationDone /\ Len(normalized) > 0) =>
        IF pc = "enrich" THEN Len(SourcesEvents) = 1 ELSE Len(SourcesEvents) = 2

\* C10: when the general search answered and its results normalized to no web
\* source, then once Promise.all has resolved no scrape is made, the bundle is
\* on the stream exactly once, with the news and images as normalized, and the
\* callback does not return before generation has started.
C10_NoSources ==
    LET decided == pc \in {"delay", "generate", "followup", "done"}
    IN  ("web" \notin callFailed /\ caught.origin # "web-map" /\ decided
            /\ sources = <<>>) =>
            /\ scraped = <<>>
            /\ Len(SourcesEvents) = 1
            /\ LastBundle = [sources |-> <<>>, newsResults |-> newsResults,
                             imageResults |-> imageResults]
            /\ pc = "done" => GenerationStarted

\* Everything a request without error writes before the follow-up call, in
\* the order of the writes, with the tokens forwarded so far.
WrittenUpToAnswer ==
    <<StatusEvent("status-1", "Starting search..."),
      StatusEvent("status-2", "Searching for relevant sources...")>>
    \o (IF Len(normalized) > 0
        THEN <<StatusEvent("status-3a", "Fetching full article content..."),
               SourcesEvent(sources, newsResults, imageResults),
               StatusEvent("status-2b", "Analyzing detailed content...")>>
        ELSE <<SourcesEvent(sources, newsResults, imageResults)>>)
    \o <<StatusEvent("status-3", "Analyzing sources and generating answer...")>>
    \o (IF query = "tesla stock" THEN <<TickerEvent("TSLA")>> ELSE <<>>)
    \o [k \in 1..gen.forwarded |-> TokenEvent(k)]

\* C11: once the follow-up call has failed, the answer had completed, the
\* callback has returned without a caught error, the stream carries no
\* follow-up event and no error event, it still carries every event written
\* before, in order, and it closes once the merged sub-stream has ended.
C11_FollowUpFailureSwallowed ==
    followUp = "failed" =>
        /\ gen.st = "finished"
        /\ pc = "done"
        /\ caught = NoError
        /\ Count(events, "data-followup") = 0
        /\ Count(events, "data-error") = 0
        /\ events = WrittenUpToAnswer
        /\ gen.forwarded = gen.produced => (closed \/ ENABLED StreamCloses)

\* The follow-up call failed after an answer of at least one token over
\* enriched sources, and the stream has closed.
C11_Witness ==
    /\ followUp = "failed"
    /\ closed
    /\ Count(events, "text-delta") >= 1
    /\ Len(scraped) > 0

FollowUpEvents == OfType(events, "data-followup")

\* C12: a follow-up event carries the first five lines of the model's response
\* that are not empty once trimmed (all of them when there are fewer), trimmed
\* and in the order of the response; an empty response gives an empty list, and
\* no error event.
C12_FollowUpQuestions ==
    followUp = "ok" =>
        /\ Len(FollowUpEvents) = 1
        /\ LET questions == FollowUpEvents[1].data.questions
               nonEmpty == {i \in 1..Len(followUpText) : Trim(followUpText[i]) # ""}
               nth(k) == CHOOSE i \in nonEmpty :
                             Cardinality({j \in nonEmpty : j <= i}) = k
           IN  /\ Len(questions) <= 5
               /\ Len(questions) = Min(5, Cardinality(nonEmpty))
               /\ \A k \in 1..Len(questions) :
                     /\ Trim(questions[k]) # ""
                     /\ questions[k] = Trim(followUpText[nth(k)])
               /\ followUpText = <<"">> =>
                     /\ questions = <<>>
                     /\ Count(events, "data-error") = 0

\* The response had seven lines, six of them not blank, and the event carries five.
C12_Witness ==
    /\ followUp = "ok"
    /\ Len(followUpText) = 7
    /\ Len(FollowUpEvents) = 1
    /\ Len(FollowUpEvents[1].data.questions) = 5
    /\ FollowUpEvents[1].data.questions[2] = "q2"

\* C13: when one of the three required environment variables is not set, no
\* search call, scrape or generation call is ever made, nothing is ever written
\* to a stream, and what POST returns is a JSON error response (status 500 when
\* the body holds a query, 400 when it holds none), never the stream.
C13_MissingConfiguration ==
    configured # RequiredEnv =>
        /\ pc \in {"request", "rejected"}
        /\ \A c \in Categories : promises[c].st = "pending"
        /\ callFailed = {}
        /\ scraped = <<>>
        /\ gen.st = "idle"
        /\ followUp = "none"
        /\ events = <<>>
        /\ ~closed
        /\ returned.kind # "stream"
        /\ pc = "rejected" =>
              /\ returned.kind = "json"
              /\ Truthy(returned.error)
              /\ returned.status = IF Truthy(query) THEN 500 ELSE 400

\* The search base URL alone is missing and POST has returned status 500 for a
\* body that holds a query.
C13_Witness ==
    /\ pc = "rejected"
    /\ configured = RequiredEnv \ {"SEARXNG_BASE_URL"}
    /\ query = "tesla stock"
    /\ returned = JsonResponse(500, "SearxNG base URL not configured")

\* C14: at every moment after normalization, the web source list has the
\* length normalization gave it and its i-th element is the i-th normalized
\* element with at most its markdown and content changed (so the same url,
\* at the same position), whatever the scrapes did.
C14_EnrichmentFrame ==
    NormalizationDone =>
        /\ Len(sources) = Len(normalized)
        /\ \A i \in 1..Len(sources) :
              /\ sources[i].url = normalized[i].url
              /\ [sources[i] EXCEPT !.markdown = normalized[i].markdown,
                                    !.content = normalized[i].content]
                 = normalized[i]

\* Two sources with different URLs; the scrape of the first failed, the scrape
\* of the second gave markdown, and the results have been applied.
C14_Witness ==
    /\ pc \in {"delay", "generate", "followup", "done"}
    /\ Len(scraped) = 2
    /\ scraped[1].st = "rejected"
    /\ scraped[2].st = "fulfilled"
    /\ sources[1].url # sources[2].url
    /\ sources[2].markdown = "M"
    /\ sources[1].markdown = Undefined

\* The scrapes have settled and their results have been applied.
EnrichmentApplied == NormalizationDone /\ pc # "enrich"
SomeScrapeFailed == \E i \in 1..Len(scraped) : scraped[i].st = "rejected"
\* The i-th scrape, fulfilled, is applied to the i-th source.
AppliedToItsSource(i) ==
    /\ sources[i].markdown = Or2(scraped[i].value.markdown, normalized[i].markdown)
    /\ sources[i].content = Or2(scraped[i].value.content, normalized[i].content)
\* The i-th source has the markdown and content normalization gave it.
Unenriched(i) ==
    /\ sources[i].markdown = normalized[i].markdown
    /\ sources[i].content = normalized[i].content
\* The sources that were scraped have pairwise different URLs.
ScrapedUrlsDistinct ==
    \A i, j \in 1..Len(scraped) : i # j => normalized[i].url # normalized[j].url

C16_PriorTurnsGiven ==
    (Len(body.messages) >= 2 /\ GenerationStarted) =>
        LET prior == SubSeq(body.messages, 1, Len(body.messages) - 1)
            n == Len(prior)
        IN  /\ \A c \in Categories : promises[c].st = "consumed"
            /\ Len(aiMessages) = n + 2
            /\ aiMessages[Len(aiMessages)] = CurrentTurn(query, context)
            /\ \A i \in 1..n :
                  /\ aiMessages[i + 1].role = prior[i].role
                  /\ aiMessages[i + 1].content = TextOf(prior[i].parts.v)

\* The status codes the catch block has messages for.
TableCodes == {401, 402, 429, 504}

\* C17: the error event of a caught error with status 401, 402, 429 or 504
\* carries that code's message and suggestion and the code, and the four
\* messages differ from one another; the error event of any other caught error
\* carries the error's own message and no suggestion.
C17_ErrorMapping ==
    /\ \A a, b \in TableCodes : a # b => errorResponses[a].error # errorResponses[b].error
    /\ caught.isError =>
          /\ Len(ErrorEvents) = 1
          /\ LET data == ErrorEvents[1].data
                 expected ==
                     CASE caught.status = 401 ->
                              <<"Invalid API key",
                                "Please check your Firecrawl API key is correct.">>
                       [] caught.status = 402 ->
                              <<"Insufficient credits",
                                "You've run out of Firecrawl credits. Please upgrade your plan.">>
                       [] caught.status = 429 ->
                              <<"Rate limit exceeded",
                                "Too many requests. Please wait a moment and try again.">>
                       [] caught.status = 504 ->
                              <<"Request timeout",
                                "The search took too long. Try a simpler query or fewer sources.">>
                       [] OTHER -> <<caught.message, Undefined>>
             IN  /\ data.error = expected[1]
                 /\ data.suggestion = expected[2]
                 /\ caught.status \in TableCodes => data.statusCode = caught.status
                 /\ caught.status \notin TableCodes => data.error = caught.message

\* A generation failure with status 429 was caught and the stream has closed.
C17_Witness ==
    /\ closed
    /\ caught.isError
    /\ caught.status = 429
    /\ ErrorEvents[1].data.error = "Rate limit exceeded"

\* C18: on the stream, every sources event and every ticker event comes before
\* every token-delta event, every sources event comes before every ticker
\* event, and a token-delta event is never there without a sources event, nor
\* without the ticker event when the query names a company.
C18_MergeKeepsOrder ==
    /\ \A i, j \in 1..Len(events) :
          /\ (events[i].type \in {"data-sources", "data-ticker"}
                /\ events[j].type = "text-delta") => i < j
          /\ (events[i].type = "data-sources" /\ events[j].type = "data-ticker") => i < j
    /\ Count(events, "text-delta") > 0 =>
          /\ Count(events, "data-sources") >= 1
          /\ Truthy(detectCompanyTicker(query)) => Count(events, "data-ticker") = 1

\* Sources, ticker and two tokens are on the stream, which has closed with a
\* token as its last event.
C18_Witness ==
    /\ closed
    /\ Count(events, "data-sources") = 1
    /\ Count(events, "data-ticker") = 1
    /\ Count(events, "text-delta") >= 2
    /\ events[Len(events)].type = "text-delta"

\* C19: the follow-up call is made only once the answer has completed, and on
\* the stream every token-delta event comes before the follow-up event.
C19_FollowUpAfterAnswer ==
    /\ followUp # "none" => gen.st = "finished"
    /\ \A i, j \in 1..Len(events) :
          (events[i].type = "text-delta" /\ events[j].type = "data-followup") => i < j

\* C20: when a sources bundle is on the stream or a scrape has been started,
\* each of the three search promises was fulfilled (with its answer, or with
\* null after a recovered failure) and read by the join, normalization has
\* completed, and the bundle holds the normalized collections.
C20_BundleAfterJoin ==
    (Len(SourcesEvents) >= 1 \/ Len(scraped) >= 1) =>
        /\ \A c \in Categories : promises[c].st = "consumed"
        /\ NormalizationDone
        /\ \A k \in 1..Len(SourcesEvents) :
              LET b == SourcesEvents[k].data
              IN  /\ b.newsResults = newsResults
                  /\ b.imageResults = imageResults
                  /\ Len(b.sources) = Len(normalized)
                  /\ \A i \in 1..Len(b.sources) : b.sources[i].url = normalized[i].url

\* Scrapes have been started and none has settled, after a news search that
\* failed and was recovered and an images search that answered; no bundle yet.
C20_Witness ==
    /\ pc = "enrich"
    /\ Len(scraped) = 2
    /\ \A i \in 1..Len(scraped) : scraped[i].st = "pending"
    /\ callFailed = {"news"}
    /\ Len(imageResults) = 2
    /\ Len(SourcesEvents) = 0

TickerEvents == OfType(events, "data-ticker")
QueryMatches == Truthy(detectCompanyTicker(query))
\* The count of ticker events the query calls for.
TickerCalledFor == IF QueryMatches THEN 1 ELSE 0

FirstWithUrl(i) ==
    CHOOSE m \in 1..Len(normalized) :
        /\ normalized[m].url = normalized[i].url
        /\ \A j \in 1..(m - 1) : normalized[j].url # normalized[i].url
\* The fulfilled scrapes matched to the i-th source.
MatchedTo(i) ==
    {k \in 1..Len(scraped) : scraped[k].st = "fulfilled" /\ FirstWithUrl(k) = i}
\* Those of them that fetched a value for the field, and the last of these.
WithValue(i, field) == {k \in MatchedTo(i) : Truthy(scraped[k].value[field])}
LastOf(S) == CHOOSE k \in S : \A l \in S : l <= k

\* C22: once the results are applied, each of the two fields of every source,
\* on its own, has the value normalization gave it unless a fulfilled scrape
\* matched to the source fetched a value for that field that is present and
\* not empty, and then it has the (last) fetched value.
C22_OverwriteOnlyIfPresent ==
    EnrichmentApplied =>
        \A i \in 1..Len(sources) : \A field \in {"markdown", "content"} :
            IF WithValue(i, field) = {}
            THEN sources[i][field] = normalized[i][field]
            ELSE sources[i][field] = scraped[LastOf(WithValue(i, field))].value[field]

\* A scrape that fetched content but an empty markdown: the content of its
\* source was replaced and the markdown kept.
C22_Witness ==
    /\ EnrichmentApplied
    /\ Len(scraped) >= 1
    /\ scraped[1].st = "fulfilled"
    /\ scraped[1].value.markdown = Undefined
    /\ normalized[1].content = "c1"
    /\ sources[1].content = "X"
    /\ sources[1].markdown = normalized[1].markdown

\* C23: a request whose answer completed has made the follow-up call by the
\* time the callback returns, and the input of the call holds the whole text
\* of the answer and the title of every web source, in order.
C23_FollowUpUsesFullAnswer ==
    /\ (pc = "done" /\ gen.st = "finished") => followUp \in {"ok", "failed"}
    /\ followUp # "none" =>
          /\ followUpInput.query = query
          /\ followUpInput.answer = FullAnswer(gen.produced)
          /\ followUpInput.titles = [i \in 1..Len(sources) |-> sources[i].title]

\* The scraped sources that share the URL of the i-th one.
SameUrl(i) == {k \in 1..Len(scraped) : normalized[k].url = normalized[i].url}

\* C24: once the results are applied, of the scraped sources that share a URL
\* every one but the earliest has its normalized markdown and content, even
\* when its own scrape was fulfilled, and the earliest has a fetched markdown
\* (content) as soon as one of their scrapes fetched a non-empty one.
C24_FirstMatchEnriched ==
    EnrichmentApplied =>
        \A i, j \in 1..Len(scraped) :
            (i < j /\ normalized[i].url = normalized[j].url) =>
                /\ Unenriched(j)
                /\ \A field \in {"markdown", "content"} :
                      LET fetched == {scraped[k].value[field] :
                                         k \in {l \in SameUrl(i) :
                                                   /\ scraped[l].st = "fulfilled"
                                                   /\ Truthy(scraped[l].value[field])}}
                      IN  fetched # {} => sources[FirstWithUrl(i)][field] \in fetched

\* Two sources with one URL: the scrape made for the first failed, the one
\* made for the second fetched markdown, which is on the first source and
\* not on the second.
C24_Witness ==
    /\ EnrichmentApplied
    /\ Len(scraped) = 2
    /\ normalized[1].url = normalized[2].url
    /\ scraped[1].st = "rejected"
    /\ scraped[2].st = "fulfilled"
    /\ sources[1].markdown = "M"
    /\ sources[2].markdown = Undefined

\* An error event was emitted.
ErrorEmitted == Len(ErrorEvents) >= 1
\* The answer stream completed and the follow-up generation was attempted.
AnsweredAndFollowUpAttempted ==
    /\ gen.st = "finished"
    /\ gen.forwarded = gen.produced
    /\ followUp \in {"ok", "failed"}

\* C25: when every call to a collaborator settles, a request that has passed
\* the configuration checks leads to the close of the stream, and in a closed
\* stream exactly one of the two holds: an error event was emitted, or the
\* answer stream completed and the follow-up generation was attempted.
C25_ClosesWithOneOutcome ==
    /\ (returned.kind = "stream") ~> closed
    /\ [](closed => (ErrorEmitted # AnsweredAndFollowUpAttempted))

\* The stream has closed after a completed answer and a follow-up generation
\* that failed, with no error event.
C25_Witness ==
    /\ closed
    /\ returned.kind = "stream"
    /\ AnsweredAndFollowUpAttempted
    /\ followUp = "failed"
    /\ gen.produced > 0
    /\ ~ErrorEmitted

=============================================================================
